---- MODULE Spec2Model ----
(***************************************************************************)
(* Model of sdk/metric/metricdata/metricdatatest/comparisons.go: the       *)
(* comparators of metric data trees (equalXxx), the multiset matcher       *)
(* (diffSlices), the diff formatter (compareDiff, notEqualStr) and the     *)
(* attribute-containment checkers (hasAttributesXxx).                      *)
(*                                                                         *)
(* Every function of the file is pure, so each one is an operator that     *)
(* computes what the Go code computes.  The state machine draws the        *)
(* arguments of one call in Init and applies the called function in one    *)
(* action per entry point.                                                 *)
(*                                                                         *)
(* Representation of Go values:                                            *)
(*  - a string built by fmt.Sprintf is the record of its format string and *)
(*    its arguments; a string built piece by piece (bytes.Buffer) is the   *)
(*    sequence of its pieces, the empty string being the empty sequence;   *)
(*  - a value of the numeric kind N (int64 | float64) is a record          *)
(*    [nan, v]: nan is TRUE only for the float64 NaN;                      *)
(*  - a time.Time is the integer of its instant;                           *)
(*  - an attribute.Set is the set of its KeyValues (one per key);          *)
(*  - an Aggregation carries its dynamic type (type, N).                   *)
(***************************************************************************)
EXTENDS Integers, Sequences, FiniteSets, TLC

VARIABLES
    fn,        \* the function called
    a,         \* first argument: the expected value (or the only tree)
    b,         \* second argument: the actual value
    cfg,       \* the config of the call
    attrs,     \* the attribute list of a hasAttributes call
    pc,        \* "call" before the function has run, "done" after it has
               \* returned, "panic" after it has panicked
    reasons,   \* the returned reasons
    predicate, \* the predicate equal of a call of diffSlices
    extra      \* the extraA and extraB that diffSlices returns

vars == <<fn, a, b, cfg, attrs, pc, reasons, predicate, extra>>

(***************************************************************************)
(* Bounds of the model.                                                    *)
(***************************************************************************)
\* longest child collection (ScopeMetrics, Metrics, DataPoints, Exemplars)
MaxLen == 2

(***************************************************************************)
(* Formatting.                                                             *)
(***************************************************************************)
Sprintf(format, args) == [fmt |-> format, args |-> args]

NotEqualFmt == "%s not equal:\nexpected: %v\nactual: %v"

notEqualStr(prefix, expected, actual) ==
    Sprintf(NotEqualFmt, <<prefix, expected, actual>>)

missingAttrStr(name) == Sprintf("missing attribute %s", <<name>>)

formatter(v) == Sprintf("%#v\n", <<v>>)

\* compareDiff without its second block: the additional values are not listed
compareDiffMissingOnly(extraExpected, extraActual) ==
    IF Len(extraExpected) = 0 /\ Len(extraActual) = 0
    THEN <<>>
    ELSE IF Len(extraExpected) > 0
         THEN <<Sprintf("missing expected values:\n", <<>>)>>
              \o [i \in 1..Len(extraExpected) |-> formatter(extraExpected[i])]
         ELSE <<>>

compareDiff(extraExpected, extraActual) ==
    IF Len(extraExpected) = 0 /\ Len(extraActual) = 0
    THEN <<>>
    ELSE (IF Len(extraExpected) > 0
          THEN <<Sprintf("missing expected values:\n", <<>>)>>
               \o [i \in 1..Len(extraExpected) |-> formatter(extraExpected[i])]
          ELSE <<>>)
         \o
         (IF Len(extraActual) > 0
          THEN <<Sprintf("unexpected additional values:\n", <<>>)>>
               \o [i \in 1..Len(extraActual) |-> formatter(extraActual[i])]
          ELSE <<>>)

(***************************************************************************)
(* Values of the numeric kind N and their comparison with Go's != .        *)
(***************************************************************************)
Num(v) == [nan |-> FALSE, v |-> v]
NaN == [nan |-> TRUE, v |-> 0]

\* x != y for x, y of kind N: a NaN differs from everything, itself included
numNeq(x, y) == x.nan \/ y.nan \/ x.v # y.v

(***************************************************************************)
(* The multiset matcher.  equal[i][j] is the value of the predicate        *)
(* equal(a[i], b[j]).  after[i] is the state of the outer loop after       *)
(* element i of a: the indices of b marked visited, and extraA.            *)
(***************************************************************************)
MinOf(S) == CHOOSE m \in S : \A n \in S : m <= n

SelectIdx(s, keep) ==
    LET F[i \in 0..Len(s)] ==
            IF i = 0 THEN <<>>
            ELSE IF i \in keep THEN Append(F[i - 1], s[i]) ELSE F[i - 1]
    IN F[Len(s)]

\* the outer loop matching element i of s with element i of t only
diffVisitPositional(s, t, equal) ==
    LET both == {i \in 1..Len(s) : i <= Len(t)}
    IN [visited |-> {i \in both : equal[i][i]},
        unmatched |-> {i \in 1..Len(s) : i \notin both \/ ~equal[i][i]}]

\* the outer loop without "visited[j] = true": no element of t is consumed
diffVisitNoConsume(s, t, equal) ==
    [visited |-> {},
     unmatched |-> {i \in 1..Len(s) : \A j \in 1..Len(t) : ~equal[i][j]}]

diffVisit(s, t, equal) ==
    LET after[i \in 0..Len(s)] ==
            IF i = 0 THEN [visited |-> {}, unmatched |-> {}]
            ELSE LET prev == after[i - 1]
                     free == {j \in 1..Len(t) : j \notin prev.visited /\ equal[i][j]}
                 IN IF free = {}
                    THEN [visited |-> prev.visited, unmatched |-> prev.unmatched \cup {i}]
                    ELSE [visited |-> prev.visited \cup {MinOf(free)},
                          unmatched |-> prev.unmatched]
    IN after[Len(s)]

\* diffSlices without its second loop: extraB stays empty
diffSlicesNoExtraB(s, t, equal) ==
    [extraA |-> SelectIdx(s, diffVisit(s, t, equal).unmatched), extraB |-> <<>>]

diffSlices(s, t, equal) ==
    LET end == diffVisit(s, t, equal)
    IN [extraA |-> SelectIdx(s, end.unmatched),
        extraB |-> SelectIdx(t, (1..Len(t)) \ end.visited)]

\* compareDiff(diffSlices(s, t, equal))
compareDiffSlices(s, t, equal) ==
    LET d == diffSlices(s, t, equal)
    IN compareDiff(d.extraA, d.extraB)

(***************************************************************************)
(* Leaf comparators.                                                       *)
(***************************************************************************)
\* equalSlices comparing the elements without their positions
equalSlicesUnordered(s, t) ==
    /\ Len(s) = Len(t)
    /\ \A i \in 1..Len(s) :
          Cardinality({j \in 1..Len(s) : s[j] = s[i]})
              = Cardinality({j \in 1..Len(t) : t[j] = s[i]})

equalSlices(s, t) ==
    /\ Len(s) = Len(t)
    /\ \A i \in 1..Len(s) : s[i] = t[i]

\* equalSlices of []float64 taken from attribute values: != on float64
equalFloatSlices(s, t) ==
    /\ Len(s) = Len(t)
    /\ \A i \in 1..Len(s) : s[i] # "NaN" /\ s[i] = t[i]

\* eqExtrema comparing the values without their presence
eqExtremaValuesOnly(x, y) == ~numNeq(x.value, y.value)

eqExtrema(x, y) ==
    IF ~x.valid \/ ~y.valid
    THEN x.valid = y.valid
    ELSE ~numNeq(x.value, y.value)

equalExtrema(x, y, c) ==
    IF ~eqExtrema(x, y) THEN <<notEqualStr("Extrema", x, y)>> ELSE <<>>

\* one iteration of the loop of equalKeyValue: TRUE when the pair passes
equalKeyValueAt(v, w) ==
    /\ v.Key = w.Key
    /\ v.Value.Type = w.Value.Type
    /\ CASE v.Value.Type = "BOOL" -> v.Value.v[1] = w.Value.v[1]
         [] v.Value.Type = "INT64" -> v.Value.v[1] = w.Value.v[1]
         [] v.Value.Type = "FLOAT64" ->
                v.Value.v[1] # "NaN" /\ v.Value.v[1] = w.Value.v[1]
         [] v.Value.Type = "STRING" -> v.Value.v[1] = w.Value.v[1]
         [] v.Value.Type = "BOOLSLICE" -> equalSlices(v.Value.v, w.Value.v)
         [] v.Value.Type = "INT64SLICE" -> equalSlices(v.Value.v, w.Value.v)
         [] v.Value.Type = "FLOAT64SLICE" -> equalFloatSlices(v.Value.v, w.Value.v)
         [] v.Value.Type = "STRINGSLICE" -> equalSlices(v.Value.v, w.Value.v)
         \* the default arm panics and yields no value: panicsKeyValue tells
         \* when the loop gets there, and then this result is never used
         [] OTHER -> FALSE

equalKeyValue(s, t) ==
    /\ Len(s) = Len(t)
    /\ \A i \in 1..Len(s) : equalKeyValueAt(s[i], t[i])

\* the 8 types of the switch of equalKeyValue
ValueTypes ==
    {"BOOL", "INT64", "FLOAT64", "STRING",
     "BOOLSLICE", "INT64SLICE", "FLOAT64SLICE", "STRINGSLICE"}

\* equalKeyValue reaches the panic of its default arm: at some index the keys
\* and the types are the same, the type is none of the 8, and no earlier
\* index has returned false
panicsKeyValue(s, t) ==
    /\ Len(s) = Len(t)
    /\ \E i \in 1..Len(s) :
          /\ s[i].Key = t[i].Key
          /\ s[i].Value.Type = t[i].Value.Type
          /\ s[i].Value.Type \notin ValueTypes
          /\ \A j \in 1..(i - 1) : equalKeyValueAt(s[j], t[j])

equalExemplars(x, y, c) ==
    (IF ~equalKeyValue(x.FilteredAttributes, y.FilteredAttributes)
     THEN <<notEqualStr("FilteredAttributes", x.FilteredAttributes, y.FilteredAttributes)>>
     ELSE <<>>)
    \o (IF ~c.ignoreTimestamp /\ x.Time # y.Time
        THEN <<notEqualStr("Time", x.Time, y.Time)>> ELSE <<>>)
    \o (IF ~c.ignoreValue /\ numNeq(x.Value, y.Value)
        THEN <<notEqualStr("Value", x.Value, y.Value)>> ELSE <<>>)
    \o (IF ~equalSlices(x.SpanID, y.SpanID)
        THEN <<notEqualStr("SpanID", x.SpanID, y.SpanID)>> ELSE <<>>)
    \o (IF ~equalSlices(x.TraceID, y.TraceID)
        THEN <<notEqualStr("TraceID", x.TraceID, y.TraceID)>> ELSE <<>>)

\* the predicate handed to diffSlices for two exemplar collections
exemplarsEqual(s, t, c) ==
    [i \in 1..Len(s) |-> [j \in 1..Len(t) |-> Len(equalExemplars(s[i], t[j], c)) = 0]]

\* the block "if !cfg.ignoreExemplars { ... }" shared by the data point shapes
exemplarsReasons(x, y, c) ==
    IF c.ignoreExemplars THEN <<>>
    ELSE LET r == compareDiffSlices(x.Exemplars, y.Exemplars,
                                    exemplarsEqual(x.Exemplars, y.Exemplars, c))
         IN IF Len(r) # 0
            THEN <<Sprintf("Exemplars not equal:\n%s", <<r>>)>>
            ELSE <<>>

\* the first two blocks shared by the data point shapes: Attributes, timestamps
attrTimeReasons(x, y, c) ==
    (IF x.Attributes # y.Attributes
     THEN <<notEqualStr("Attributes", x.Attributes, y.Attributes)>> ELSE <<>>)
    \o (IF ~c.ignoreTimestamp /\ x.StartTime # y.StartTime
        THEN <<notEqualStr("StartTime", x.StartTime, y.StartTime)>> ELSE <<>>)
    \o (IF ~c.ignoreTimestamp /\ x.Time # y.Time
        THEN <<notEqualStr("Time", x.Time, y.Time)>> ELSE <<>>)

equalDataPoints(x, y, c) ==
    attrTimeReasons(x, y, c)
    \o (IF ~c.ignoreValue /\ numNeq(x.Value, y.Value)
        THEN <<notEqualStr("Value", x.Value, y.Value)>> ELSE <<>>)
    \o exemplarsReasons(x, y, c)

\* the predicate handed to diffSlices for two DataPoint collections
dataPointsEqual(s, t, c) ==
    [i \in 1..Len(s) |-> [j \in 1..Len(t) |-> Len(equalDataPoints(s[i], t[j], c)) = 0]]

\* equalHistogramDataPoints with Bounds compared outside the ignoreValue block
equalHistogramDataPointsBoundsAlways(x, y, c) ==
    attrTimeReasons(x, y, c)
    \o (IF ~equalSlices(x.Bounds, y.Bounds)
        THEN <<notEqualStr("Bounds", x.Bounds, y.Bounds)>> ELSE <<>>)
    \o (IF c.ignoreValue THEN <<>>
        ELSE (IF x.Count # y.Count
              THEN <<notEqualStr("Count", x.Count, y.Count)>> ELSE <<>>)
          \o (IF ~equalSlices(x.BucketCounts, y.BucketCounts)
              THEN <<notEqualStr("BucketCounts", x.BucketCounts, y.BucketCounts)>>
              ELSE <<>>)
          \o (IF ~eqExtrema(x.Min, y.Min)
              THEN <<notEqualStr("Min", x.Min, y.Min)>> ELSE <<>>)
          \o (IF ~eqExtrema(x.Max, y.Max)
              THEN <<notEqualStr("Max", x.Max, y.Max)>> ELSE <<>>)
          \o (IF numNeq(x.Sum, y.Sum)
              THEN <<notEqualStr("Sum", x.Sum, y.Sum)>> ELSE <<>>))
    \o exemplarsReasons(x, y, c)

equalHistogramDataPoints(x, y, c) ==
    attrTimeReasons(x, y, c)
    \o (IF c.ignoreValue THEN <<>>
        ELSE (IF x.Count # y.Count
              THEN <<notEqualStr("Count", x.Count, y.Count)>> ELSE <<>>)
          \o (IF ~equalSlices(x.Bounds, y.Bounds)
              THEN <<notEqualStr("Bounds", x.Bounds, y.Bounds)>> ELSE <<>>)
          \o (IF ~equalSlices(x.BucketCounts, y.BucketCounts)
              THEN <<notEqualStr("BucketCounts", x.BucketCounts, y.BucketCounts)>>
              ELSE <<>>)
          \o (IF ~eqExtrema(x.Min, y.Min)
              THEN <<notEqualStr("Min", x.Min, y.Min)>> ELSE <<>>)
          \o (IF ~eqExtrema(x.Max, y.Max)
              THEN <<notEqualStr("Max", x.Max, y.Max)>> ELSE <<>>)
          \o (IF numNeq(x.Sum, y.Sum)
              THEN <<notEqualStr("Sum", x.Sum, y.Sum)>> ELSE <<>>))
    \o exemplarsReasons(x, y, c)

histogramDataPointsEqual(s, t, c) ==
    [i \in 1..Len(s) |->
        [j \in 1..Len(t) |-> Len(equalHistogramDataPoints(s[i], t[j], c)) = 0]]

equalExponentialBuckets(x, y, c) ==
    (IF x.Offset # y.Offset
     THEN <<notEqualStr("Offset", x.Offset, y.Offset)>> ELSE <<>>)
    \o (IF ~equalSlices(x.Counts, y.Counts)
        THEN <<notEqualStr("Counts", x.Counts, y.Counts)>> ELSE <<>>)

equalExponentialHistogramDataPoints(x, y, c) ==
    attrTimeReasons(x, y, c)
    \o (IF c.ignoreValue THEN <<>>
        ELSE (IF x.Count # y.Count
              THEN <<notEqualStr("Count", x.Count, y.Count)>> ELSE <<>>)
          \o (IF ~eqExtrema(x.Min, y.Min)
              THEN <<notEqualStr("Min", x.Min, y.Min)>> ELSE <<>>)
          \o (IF ~eqExtrema(x.Max, y.Max)
              THEN <<notEqualStr("Max", x.Max, y.Max)>> ELSE <<>>)
          \o (IF numNeq(x.Sum, y.Sum)
              THEN <<notEqualStr("Sum", x.Sum, y.Sum)>> ELSE <<>>)
          \o (IF x.Scale # y.Scale
              THEN <<notEqualStr("Scale", x.Scale, y.Scale)>> ELSE <<>>)
          \o (IF x.ZeroCount # y.ZeroCount
              THEN <<notEqualStr("ZeroCount", x.ZeroCount, y.ZeroCount)>> ELSE <<>>)
          \o equalExponentialBuckets(x.PositiveBucket, y.PositiveBucket, c)
          \o equalExponentialBuckets(x.NegativeBucket, y.NegativeBucket, c))
    \o exemplarsReasons(x, y, c)

exponentialHistogramDataPointsEqual(s, t, c) ==
    [i \in 1..Len(s) |->
        [j \in 1..Len(t) |->
            Len(equalExponentialHistogramDataPoints(s[i], t[j], c)) = 0]]

(***************************************************************************)
(* Aggregation comparators and the dispatcher.                             *)
(***************************************************************************)
equalGauges(x, y, c) ==
    LET r == compareDiffSlices(x.DataPoints, y.DataPoints,
                               dataPointsEqual(x.DataPoints, y.DataPoints, c))
    IN IF Len(r) # 0
       THEN <<Sprintf("Gauge DataPoints not equal:\n%s", <<r>>)>>
       ELSE <<>>

equalSums(x, y, c) ==
    (IF x.Temporality # y.Temporality
     THEN <<notEqualStr("Temporality", x.Temporality, y.Temporality)>> ELSE <<>>)
    \o (IF x.IsMonotonic # y.IsMonotonic
        THEN <<notEqualStr("IsMonotonic", x.IsMonotonic, y.IsMonotonic)>> ELSE <<>>)
    \o (LET r == compareDiffSlices(x.DataPoints, y.DataPoints,
                                   dataPointsEqual(x.DataPoints, y.DataPoints, c))
        IN IF Len(r) # 0
           THEN <<Sprintf("Sum DataPoints not equal:\n%s", <<r>>)>>
           ELSE <<>>)

equalHistograms(x, y, c) ==
    (IF x.Temporality # y.Temporality
     THEN <<notEqualStr("Temporality", x.Temporality, y.Temporality)>> ELSE <<>>)
    \o (LET r == compareDiffSlices(x.DataPoints, y.DataPoints,
                    histogramDataPointsEqual(x.DataPoints, y.DataPoints, c))
        IN IF Len(r) # 0
           THEN <<Sprintf("Histogram DataPoints not equal:\n%s", <<r>>)>>
           ELSE <<>>)

equalExponentialHistograms(x, y, c) ==
    (IF x.Temporality # y.Temporality
     THEN <<notEqualStr("Temporality", x.Temporality, y.Temporality)>> ELSE <<>>)
    \o (LET r == compareDiffSlices(x.DataPoints, y.DataPoints,
                    exponentialHistogramDataPointsEqual(x.DataPoints, y.DataPoints, c))
        IN IF Len(r) # 0
           THEN <<Sprintf("Histogram DataPoints not equal:\n%s", <<r>>)>>
           ELSE <<>>)

\* the static type of the argument, the interface, for its dynamic type
TypeOfInterface(x) == <<"metricdata.Aggregation">>

\* the type of an Aggregation without the numeric kind it is instantiated over
TypeOfWithoutKind(x) == <<x.type>>

\* reflect.TypeOf of a non-nil Aggregation
TypeOf(x) == IF x.type = "unknown" THEN <<"unknown">> ELSE <<x.type, x.N>>

\* one arm of the type switch of equalAggregations: the header, then r
withHeader(header, r) ==
    IF Len(r) > 0 THEN <<Sprintf(header, <<>>)>> \o r ELSE <<>>

equalAggregations(x, y, c) ==
    IF x.type = "nil" \/ y.type = "nil"
    THEN IF x # y THEN <<notEqualStr("Aggregation", x, y)>> ELSE <<>>
    ELSE IF TypeOf(x) # TypeOf(y)
    THEN <<Sprintf("Aggregation types not equal:\nexpected: %T\nactual: %T", <<x, y>>)>>
    ELSE CASE x.type = "Gauge" /\ x.N = "int64" ->
                  withHeader("Gauge[int64] not equal:", equalGauges(x, y, c))
           [] x.type = "Gauge" /\ x.N = "float64" ->
                  withHeader("Gauge[float64] not equal:", equalGauges(x, y, c))
           [] x.type = "Sum" /\ x.N = "int64" ->
                  withHeader("Sum[int64] not equal:", equalSums(x, y, c))
           [] x.type = "Sum" /\ x.N = "float64" ->
                  withHeader("Sum[float64] not equal:", equalSums(x, y, c))
           [] x.type = "Histogram" ->
                  withHeader("Histogram not equal:", equalHistograms(x, y, c))
           [] x.type = "ExponentialHistogram" ->
                  withHeader("ExponentialHistogram not equal:",
                             equalExponentialHistograms(x, y, c))
           [] OTHER -> <<Sprintf("Aggregation of unknown types %T", <<x>>)>>

(***************************************************************************)
(* Tree comparators.                                                       *)
(***************************************************************************)
equalMetrics(x, y, c) ==
    (IF x.Name # y.Name THEN <<notEqualStr("Name", x.Name, y.Name)>> ELSE <<>>)
    \o (IF x.Description # y.Description
        THEN <<notEqualStr("Description", x.Description, y.Description)>> ELSE <<>>)
    \o (IF x.Unit # y.Unit THEN <<notEqualStr("Unit", x.Unit, y.Unit)>> ELSE <<>>)
    \o withHeader("Metrics Data not equal:", equalAggregations(x.Data, y.Data, c))

metricsEqual(s, t, c) ==
    [i \in 1..Len(s) |-> [j \in 1..Len(t) |-> Len(equalMetrics(s[i], t[j], c)) = 0]]

equalScopeMetrics(x, y, c) ==
    (IF x.Scope # y.Scope THEN <<notEqualStr("Scope", x.Scope, y.Scope)>> ELSE <<>>)
    \o (LET r == compareDiffSlices(x.Metrics, y.Metrics,
                                   metricsEqual(x.Metrics, y.Metrics, c))
        IN IF Len(r) # 0
           THEN <<Sprintf("ScopeMetrics Metrics not equal:\n%s", <<r>>)>>
           ELSE <<>>)

scopeMetricsEqual(s, t, c) ==
    [i \in 1..Len(s) |-> [j \in 1..Len(t) |-> Len(equalScopeMetrics(s[i], t[j], c)) = 0]]

equalResourceMetrics(x, y, c) ==
    (IF x.Resource # y.Resource
     THEN <<notEqualStr("Resources", x.Resource, y.Resource)>> ELSE <<>>)
    \o (LET r == compareDiffSlices(x.ScopeMetrics, y.ScopeMetrics,
                    scopeMetricsEqual(x.ScopeMetrics, y.ScopeMetrics, c))
        IN IF Len(r) # 0
           THEN <<Sprintf("ResourceMetrics ScopeMetrics not equal:\n%s", <<r>>)>>
           ELSE <<>>)

(***************************************************************************)
(* Calls that do not return.  The one panic of the package is the default  *)
(* arm of equalKeyValue; a type assertion b.(T) of equalAggregations       *)
(* panics when b is not a T.  A panic inside a predicate handed to         *)
(* diffSlices ends diffSlices, and so on up to the function called.        *)
(* panics[i][j] tells whether the predicate equal(a[i], b[j]) panics.      *)
(***************************************************************************)
\* diffSlices evaluates a predicate that panics: element i of s reaches
\* element j of t, which is not visited, before an unvisited match
panicsDiffSlices(s, t, equal, panics) ==
    \E i \in 1..Len(s) : \E j \in 1..Len(t) :
        LET visited == diffVisit(SubSeq(s, 1, i - 1), t, equal).visited
        IN /\ j \notin visited
           /\ panics[i][j]
           /\ \A k \in 1..(j - 1) : k \in visited \/ ~equal[i][k]

panicsExemplars(x, y, c) ==
    panicsKeyValue(x.FilteredAttributes, y.FilteredAttributes)

\* the exemplar block of the three data point shapes, their only call
panicsPoints(x, y, c) ==
    /\ ~c.ignoreExemplars
    /\ panicsDiffSlices(x.Exemplars, y.Exemplars,
            exemplarsEqual(x.Exemplars, y.Exemplars, c),
            [i \in 1..Len(x.Exemplars) |-> [j \in 1..Len(y.Exemplars) |->
                panicsExemplars(x.Exemplars[i], y.Exemplars[j], c)]])

\* equalGauges, equalSums, equalHistograms, equalExponentialHistograms:
\* diffSlices over the DataPoints, with equal the predicate of the shape
panicsDataPoints(x, y, equal, c) ==
    panicsDiffSlices(x.DataPoints, y.DataPoints, equal,
        [i \in 1..Len(x.DataPoints) |-> [j \in 1..Len(y.DataPoints) |->
            panicsPoints(x.DataPoints[i], y.DataPoints[j], c)]])

\* the type assertion y.(T), T the type of the arm taken for x
panicsAssertion(x, y) == y.type # x.type \/ y.N # x.N

panicsAggregations(x, y, c) ==
    IF x.type = "nil" \/ y.type = "nil" THEN FALSE
    ELSE IF TypeOf(x) # TypeOf(y) THEN FALSE
    ELSE IF x.type = "unknown" THEN FALSE
    ELSE \/ panicsAssertion(x, y)
         \/ CASE x.type \in {"Gauge", "Sum"} ->
                     panicsDataPoints(x, y,
                         dataPointsEqual(x.DataPoints, y.DataPoints, c), c)
                [] x.type = "Histogram" ->
                     panicsDataPoints(x, y,
                         histogramDataPointsEqual(x.DataPoints, y.DataPoints, c), c)
                [] x.type = "ExponentialHistogram" ->
                     panicsDataPoints(x, y,
                         exponentialHistogramDataPointsEqual(
                             x.DataPoints, y.DataPoints, c), c)

panicsMetrics(x, y, c) == panicsAggregations(x.Data, y.Data, c)

panicsScopeMetrics(x, y, c) ==
    panicsDiffSlices(x.Metrics, y.Metrics, metricsEqual(x.Metrics, y.Metrics, c),
        [i \in 1..Len(x.Metrics) |-> [j \in 1..Len(y.Metrics) |->
            panicsMetrics(x.Metrics[i], y.Metrics[j], c)]])

panicsResourceMetrics(x, y, c) ==
    panicsDiffSlices(x.ScopeMetrics, y.ScopeMetrics,
        scopeMetricsEqual(x.ScopeMetrics, y.ScopeMetrics, c),
        [i \in 1..Len(x.ScopeMetrics) |-> [j \in 1..Len(y.ScopeMetrics) |->
            panicsScopeMetrics(x.ScopeMetrics[i], y.ScopeMetrics[j], c)]])

(***************************************************************************)
(* Attribute containment.                                                  *)
(***************************************************************************)
\* attribute.Value.Emit: the text of the payload, whatever its Type
Emit(val) == val.v

\* attribute.NewSet: of two KeyValues with one key the later one is kept
NewSet(kvs) ==
    {kvs[i] : i \in {k \in 1..Len(kvs) :
                        \A m \in (k + 1)..Len(kvs) : kvs[m].Key # kvs[k].Key}}

\* attribute.Set.Value: (val, ok)
SetHas(set, key) == \E kv \in set : kv.Key = key
SetValue(set, key) == (CHOOSE kv \in set : kv.Key = key).Value

\* the concatenation of the sequences of reasons seqs[1], seqs[2], ...
Flatten(seqs) ==
    LET F[i \in 0..Len(seqs)] == IF i = 0 THEN <<>> ELSE F[i - 1] \o seqs[i]
    IN F[Len(seqs)]

\* the loop with the two values of notEqualStr exchanged
hasAttributesSetSwapped(set, as) ==
    Flatten([i \in 1..Len(as) |->
        IF ~SetHas(set, as[i].Key)
        THEN <<missingAttrStr(as[i].Key)>>
        ELSE IF SetValue(set, as[i].Key) # as[i].Value
        THEN <<notEqualStr(as[i].Key, Emit(SetValue(set, as[i].Key)),
                           Emit(as[i].Value))>>
        ELSE <<>>])

\* the loop "for _, attr := range attrs" shared by the five leaf checkers
hasAttributesSet(set, as) ==
    Flatten([i \in 1..Len(as) |->
        IF ~SetHas(set, as[i].Key)
        THEN <<missingAttrStr(as[i].Key)>>
        ELSE IF SetValue(set, as[i].Key) # as[i].Value
        THEN <<notEqualStr(as[i].Key, Emit(as[i].Value),
                           Emit(SetValue(set, as[i].Key)))>>
        ELSE <<>>])

hasAttributesExemplars(exemplar, as) ==
    hasAttributesSet(NewSet(exemplar.FilteredAttributes), as)

hasAttributesDataPoints(dp, as) == hasAttributesSet(dp.Attributes, as)

hasAttributesHistogramDataPoints(dp, as) == hasAttributesSet(dp.Attributes, as)

hasAttributesExponentialHistogramDataPoints(dp, as) ==
    hasAttributesSet(dp.Attributes, as)

\* "for n, x := range xs": the reasons of child n (counted from 0) after a
\* header naming it, when there are any
withIndexHeader(format, args, r) ==
    IF Len(r) > 0 THEN <<Sprintf(format, args)>> \o r ELSE <<>>

hasAttributesGauge(gauge, as) ==
    Flatten([n \in 1..Len(gauge.DataPoints) |->
        withIndexHeader("gauge datapoint %d attributes:\n", <<n - 1>>,
                        hasAttributesDataPoints(gauge.DataPoints[n], as))])

hasAttributesSum(sum, as) ==
    Flatten([n \in 1..Len(sum.DataPoints) |->
        withIndexHeader("sum datapoint %d attributes:\n", <<n - 1>>,
                        hasAttributesDataPoints(sum.DataPoints[n], as))])

hasAttributesHistogram(histogram, as) ==
    Flatten([n \in 1..Len(histogram.DataPoints) |->
        withIndexHeader("histogram datapoint %d attributes:\n", <<n - 1>>,
                        hasAttributesHistogramDataPoints(histogram.DataPoints[n], as))])

hasAttributesExponentialHistogram(histogram, as) ==
    Flatten([n \in 1..Len(histogram.DataPoints) |->
        withIndexHeader("histogram datapoint %d attributes:\n", <<n - 1>>,
            hasAttributesExponentialHistogramDataPoints(histogram.DataPoints[n], as))])

hasAttributesAggregation(agg, as) ==
    CASE agg.type = "Gauge" -> hasAttributesGauge(agg, as)
      [] agg.type = "Sum" -> hasAttributesSum(agg, as)
      [] agg.type = "Histogram" -> hasAttributesHistogram(agg, as)
      [] agg.type = "ExponentialHistogram" ->
             hasAttributesExponentialHistogram(agg, as)
      [] OTHER -> <<Sprintf("unknown aggregation %T", <<agg>>)>>

hasAttributesMetrics(metrics, as) ==
    withIndexHeader("Metric %s:\n", <<metrics.Name>>,
                    hasAttributesAggregation(metrics.Data, as))

hasAttributesScopeMetrics(sm, as) ==
    Flatten([n \in 1..Len(sm.Metrics) |->
        withIndexHeader("ScopeMetrics %s Metrics %d:\n", <<sm.Scope.Name, n - 1>>,
                        hasAttributesMetrics(sm.Metrics[n], as))])

hasAttributesResourceMetrics(rm, as) ==
    Flatten([n \in 1..Len(rm.ScopeMetrics) |->
        withIndexHeader("ResourceMetrics ScopeMetrics %d:\n", <<n - 1>>,
                        hasAttributesScopeMetrics(rm.ScopeMetrics[n], as))])

(***************************************************************************)
(* The arguments the calls are made with.  Each universe is a base value   *)
(* and the values that differ from it in one field; a pair of arguments    *)
(* is a value of the universe and a value that differs from it in at most  *)
(* one field (both timestamps count as one), so the two arguments differ   *)
(* from each other in any of the ways the comparators distinguish.         *)
(***************************************************************************)
SeqsUpTo(S, n) == UNION {[1..k -> S] : k \in 0..n}

Configs ==
    [ignoreTimestamp : BOOLEAN, ignoreValue : BOOLEAN, ignoreExemplars : BOOLEAN]

DefaultConfig ==
    [ignoreTimestamp |-> FALSE, ignoreValue |-> FALSE, ignoreExemplars |-> FALSE]

Times == {0, 1}

\* values of kind int64, and of kind float64
Values(N) == IF N = "float64" THEN {Num(5), Num(6), NaN} ELSE {Num(5), Num(6)}

KeyValue(key, type, v) == [Key |-> key, Value |-> [Type |-> type, v |-> v]]

MethodGET == KeyValue("method", "STRING", <<"GET">>)
MethodPOST == KeyValue("method", "STRING", <<"POST">>)
RegionUS == KeyValue("region", "STRING", <<"us">>)

\* attribute sets of data points
AttributeSets == {{MethodGET}, {MethodPOST}, {}, {MethodGET, RegionUS}}

\* filtered attribute lists of exemplars: one or two values of the 8 kinds
FilteredAttributeLists ==
    { <<>>, <<MethodGET>>, <<MethodPOST>>, <<MethodGET, RegionUS>>,
      <<RegionUS, MethodGET>>,
      <<KeyValue("ok", "BOOL", <<"true">>)>>,
      <<KeyValue("n", "INT64", <<"1">>)>>,
      <<KeyValue("n", "STRING", <<"1">>)>>,
      <<KeyValue("f", "FLOAT64", <<"1.5">>)>>,
      <<KeyValue("f", "FLOAT64", <<"NaN">>)>>,
      <<KeyValue("oks", "BOOLSLICE", <<"true", "false">>)>>,
      <<KeyValue("ns", "INT64SLICE", <<"1", "2">>)>>,
      <<KeyValue("ns", "INT64SLICE", <<"2", "1">>)>>,
      <<KeyValue("fs", "FLOAT64SLICE", <<"1.5">>)>>,
      <<KeyValue("ss", "STRINGSLICE", <<"a", "b">>)>>,
      <<KeyValue("ss", "STRINGSLICE", <<"a">>)>> }

IDs == {<<1, 1>>, <<1, 2>>, <<2, 1>>}

BaseExemplar ==
    [FilteredAttributes |-> <<>>, Time |-> 0, Value |-> Num(5),
     SpanID |-> <<1, 1>>, TraceID |-> <<1, 1>>]

\* an attribute whose Value is of none of the 8 types (the zero Value is
\* of type INVALID), and the lists and the exemplar that hold it
UnknownKind == KeyValue("k", "INVALID", <<>>)

UnknownKindLists ==
    {<<UnknownKind>>, <<MethodGET, UnknownKind>>, <<MethodPOST, UnknownKind>>}

UnknownKindExemplar == [BaseExemplar EXCEPT !.FilteredAttributes = <<UnknownKind>>]

ExemplarsNear(e, N) ==
    {[e EXCEPT !.FilteredAttributes = v] :
        v \in FilteredAttributeLists \cup UnknownKindLists}
    \cup {[e EXCEPT !.Time = t] : t \in Times}
    \cup {[e EXCEPT !.Value = v] : v \in Values(N)}
    \cup {[e EXCEPT !.SpanID = v] : v \in IDs}
    \cup {[e EXCEPT !.TraceID = v] : v \in IDs}

\* exemplar collections of data points of kind N
ExemplarLists(N) ==
    SeqsUpTo({BaseExemplar, [BaseExemplar EXCEPT !.Value = Num(6)]}, MaxLen)
    \cup (IF N = "float64"
          THEN SeqsUpTo({[BaseExemplar EXCEPT !.Value = NaN]}, MaxLen)
          ELSE {})
    \cup {<<UnknownKindExemplar>>, <<BaseExemplar, UnknownKindExemplar>>}

\* the fields the three data point shapes share
PointsNear(d, N) ==
    {[d EXCEPT !.Attributes = v] : v \in AttributeSets}
    \cup {[d EXCEPT !.StartTime = s, !.Time = t] : s \in Times, t \in Times}
    \cup {[d EXCEPT !.Exemplars = v] : v \in ExemplarLists(N)}

BaseDataPoint ==
    [Attributes |-> {MethodGET}, StartTime |-> 0, Time |-> 1, Value |-> Num(5),
     Exemplars |-> <<>>]

DataPointsNear(d, N) ==
    PointsNear(d, N) \cup {[d EXCEPT !.Value = v] : v \in Values(N)}

Extrema(N) ==
    {[valid |-> FALSE, value |-> Num(0)]}
    \cup {[valid |-> TRUE, value |-> v] : v \in {Num(0)} \cup Values(N)}

BoundsLists == {<<1, 2>>, <<2, 1>>, <<1>>, <<1, 2, 2>>, <<2, 1, 2>>}

CountLists == {<<1, 0, 1>>, <<0, 1, 1>>, <<1, 1, 0>>, <<1, 1>>}

BaseHistogramDataPoint ==
    [Attributes |-> {MethodGET}, StartTime |-> 0, Time |-> 1, Count |-> 2,
     Bounds |-> <<1, 2>>, BucketCounts |-> <<1, 0, 1>>,
     Min |-> [valid |-> TRUE, value |-> Num(0)],
     Max |-> [valid |-> TRUE, value |-> Num(5)],
     Sum |-> Num(5), Exemplars |-> <<>>]

HistogramDataPointsNear(d, N) ==
    PointsNear(d, N)
    \cup {[d EXCEPT !.Count = v] : v \in {2, 3}}
    \cup {[d EXCEPT !.Bounds = v] : v \in BoundsLists}
    \cup {[d EXCEPT !.BucketCounts = v] : v \in CountLists}
    \cup {[d EXCEPT !.Min = v] : v \in Extrema(N)}
    \cup {[d EXCEPT !.Max = v] : v \in Extrema(N)}
    \cup {[d EXCEPT !.Sum = v] : v \in Values(N)}

BaseExponentialHistogramDataPoint ==
    [Attributes |-> {MethodGET}, StartTime |-> 0, Time |-> 1, Count |-> 2,
     Min |-> [valid |-> TRUE, value |-> Num(0)],
     Max |-> [valid |-> TRUE, value |-> Num(5)],
     Sum |-> Num(5), Scale |-> 0, ZeroCount |-> 0,
     PositiveBucket |-> [Offset |-> 0, Counts |-> <<1, 0, 1>>],
     NegativeBucket |-> [Offset |-> 0, Counts |-> <<1, 0, 1>>],
     Exemplars |-> <<>>]

ExponentialHistogramDataPointsNear(d, N) ==
    PointsNear(d, N)
    \cup {[d EXCEPT !.Count = v] : v \in {2, 3}}
    \cup {[d EXCEPT !.Min = v] : v \in Extrema(N)}
    \cup {[d EXCEPT !.Max = v] : v \in Extrema(N)}
    \cup {[d EXCEPT !.Sum = v] : v \in Values(N)}
    \cup {[d EXCEPT !.Scale = v] : v \in {0, 1}}
    \cup {[d EXCEPT !.ZeroCount = v] : v \in {0, 1}}
    \cup {[d EXCEPT !.PositiveBucket.Offset = v] : v \in {0, 1}}
    \cup {[d EXCEPT !.PositiveBucket.Counts = v] : v \in CountLists}
    \cup {[d EXCEPT !.NegativeBucket.Offset = v] : v \in {0, 1}}
    \cup {[d EXCEPT !.NegativeBucket.Counts = v] : v \in CountLists}

Kinds == {"int64", "float64"}

Temporalities == {"CumulativeTemporality", "DeltaTemporality"}

NilAggregation == [type |-> "nil"]

\* an Aggregation that is none of the 8 shapes of the type switches
UnknownAggregation == [type |-> "unknown"]

Gauge(N, dps) == [type |-> "Gauge", N |-> N, DataPoints |-> dps]

Sum(N, dps) ==
    [type |-> "Sum", N |-> N, DataPoints |-> dps,
     Temporality |-> "CumulativeTemporality", IsMonotonic |-> TRUE]

Histogram(N, dps) ==
    [type |-> "Histogram", N |-> N, DataPoints |-> dps,
     Temporality |-> "CumulativeTemporality"]

ExponentialHistogram(N, dps) ==
    [type |-> "ExponentialHistogram", N |-> N, DataPoints |-> dps,
     Temporality |-> "CumulativeTemporality"]

\* the data point collections of an aggregation of kind N: two data points
\* that differ in their value and, for float64, one whose value is NaN
PointLists(base, field, N) ==
    SeqsUpTo({base, [base EXCEPT ![field] = Num(6)]}, MaxLen)
    \cup (IF N = "float64"
          THEN SeqsUpTo({[base EXCEPT ![field] = NaN]}, MaxLen)
          ELSE {})
    \cup {<<[base EXCEPT !.Exemplars = <<UnknownKindExemplar>>]>>}

ListsFor(type, N) ==
    CASE type \in {"Gauge", "Sum"} -> PointLists(BaseDataPoint, "Value", N)
      [] type = "Histogram" -> PointLists(BaseHistogramDataPoint, "Sum", N)
      [] type = "ExponentialHistogram" ->
             PointLists(BaseExponentialHistogramDataPoint, "Sum", N)

AggregationBases ==
    {NilAggregation, UnknownAggregation}
    \cup UNION {
           {Gauge(N, l) : l \in ListsFor("Gauge", N)}
           \cup {Sum(N, l) : l \in ListsFor("Sum", N)}
           \cup {Histogram(N, l) : l \in ListsFor("Histogram", N)}
           \cup {ExponentialHistogram(N, l) : l \in ListsFor("ExponentialHistogram", N)}
         : N \in Kinds}

NoPoints(x) == x.type \in {"nil", "unknown"}

\* the second argument of equalAggregations(x, _): an aggregation of the type
\* of x that differs from it in one field, or an aggregation of any type
\* with the data points of x or with at most one data point
AggregationsNear(x) ==
    {x}
    \cup (IF NoPoints(x) THEN {}
          ELSE {[x EXCEPT !.DataPoints = l] : l \in ListsFor(x.type, x.N)})
    \cup (IF x.type \in {"Sum", "Histogram", "ExponentialHistogram"}
          THEN {[x EXCEPT !.Temporality = t] : t \in Temporalities} ELSE {})
    \cup (IF x.type = "Sum"
          THEN {[x EXCEPT !.IsMonotonic = m] : m \in BOOLEAN} ELSE {})
    \cup {y \in AggregationBases :
            \/ NoPoints(y)
            \/ Len(y.DataPoints) <= 1
            \/ (~NoPoints(x) /\ y.DataPoints = x.DataPoints)}

BaseMetrics ==
    [Name |-> "requests", Description |-> "", Unit |-> "1",
     Data |-> Sum("int64", <<BaseDataPoint>>)]

OtherMetrics ==
    [BaseMetrics EXCEPT !.Data =
        Sum("int64", <<[BaseDataPoint EXCEPT !.Value = Num(6)]>>)]

\* Metrics whose data point has the exemplar with the attribute of unknown kind
UnknownKindMetrics ==
    [BaseMetrics EXCEPT !.Data =
        Sum("int64", <<[BaseDataPoint EXCEPT !.Exemplars = <<UnknownKindExemplar>>]>>)]

MetricsData ==
    {NilAggregation, UnknownAggregation, BaseMetrics.Data, OtherMetrics.Data,
     UnknownKindMetrics.Data,
     Sum("float64", <<BaseDataPoint>>), Gauge("int64", <<BaseDataPoint>>),
     [BaseMetrics.Data EXCEPT !.IsMonotonic = FALSE],
     [BaseMetrics.Data EXCEPT !.Temporality = "DeltaTemporality"]}

MetricsNear(m) ==
    {[m EXCEPT !.Name = v] : v \in {"requests", "errors"}}
    \cup {[m EXCEPT !.Description = v] : v \in {"", "number of requests"}}
    \cup {[m EXCEPT !.Unit = v] : v \in {"1", "ms"}}
    \cup {[m EXCEPT !.Data = v] : v \in MetricsData}

BaseScope == [Name |-> "scope", Version |-> "v1", SchemaURL |-> ""]

Scopes == {BaseScope, [BaseScope EXCEPT !.Version = "v2"]}

ScopeMetricsAll ==
    [Scope : Scopes, Metrics : SeqsUpTo({BaseMetrics, OtherMetrics}, MaxLen)]
    \cup [Scope : Scopes,
          Metrics : {<<UnknownKindMetrics>>, <<BaseMetrics, UnknownKindMetrics>>}]

BaseScopeMetrics == [Scope |-> BaseScope, Metrics |-> <<BaseMetrics>>]

OtherScopeMetrics == [Scope |-> BaseScope, Metrics |-> <<OtherMetrics>>]

UnknownKindScopeMetrics == [Scope |-> BaseScope, Metrics |-> <<UnknownKindMetrics>>]

\* a resource is the set of its attributes
Resources == {{KeyValue("service.name", "STRING", <<"api">>)}, {}}

ResourceMetricsAll ==
    [Resource : Resources,
     ScopeMetrics : SeqsUpTo({BaseScopeMetrics, OtherScopeMetrics}, MaxLen)]
    \cup [Resource : Resources,
          ScopeMetrics : {<<UnknownKindScopeMetrics>>,
                          <<BaseScopeMetrics, UnknownKindScopeMetrics>>}]

(***************************************************************************)
(* The trees and the attribute lists of the hasAttributes calls: the data  *)
(* points differ in their attribute sets.                                  *)
(***************************************************************************)
AttributeLists == {<<>>, <<MethodGET>>, <<RegionUS>>, <<MethodGET, RegionUS>>}

PointsWithAttributes(base) == {[base EXCEPT !.Attributes = v] : v \in AttributeSets}

ContainmentExemplars ==
    {[BaseExemplar EXCEPT !.FilteredAttributes = v] :
        v \in FilteredAttributeLists \cup {<<MethodGET, MethodPOST>>}}

ContainmentAggregations ==
    {NilAggregation, UnknownAggregation}
    \cup {Gauge("int64", l) :
            l \in SeqsUpTo(PointsWithAttributes(BaseDataPoint), MaxLen)}
    \cup {Sum("float64", l) :
            l \in SeqsUpTo(PointsWithAttributes(BaseDataPoint), MaxLen)}
    \cup {Histogram("int64", l) :
            l \in SeqsUpTo(PointsWithAttributes(BaseHistogramDataPoint), MaxLen)}
    \cup {ExponentialHistogram("float64", l) :
            l \in SeqsUpTo(PointsWithAttributes(BaseExponentialHistogramDataPoint),
                           MaxLen)}

ContainmentMetrics ==
    {[BaseMetrics EXCEPT !.Data = g] :
        g \in {x \in ContainmentAggregations : NoPoints(x) \/ Len(x.DataPoints) <= 1}}

\* Metrics whose Data is a Sum[int64] with one data point
SumMetrics ==
    {[BaseMetrics EXCEPT !.Data = Sum("int64", <<d>>)] :
        d \in PointsWithAttributes(BaseDataPoint)}

ContainmentScopeMetrics ==
    {[Scope |-> BaseScope, Metrics |-> l] : l \in SeqsUpTo(SumMetrics, MaxLen)}

ContainmentResourceMetrics ==
    {[Resource |-> {}, ScopeMetrics |-> l] :
        l \in SeqsUpTo({[Scope |-> BaseScope, Metrics |-> <<m>>] : m \in SumMetrics},
                       MaxLen)}

(***************************************************************************)
(* The state machine: Init draws the function called and its arguments,    *)
(* the action of the function runs it and records what it returns.         *)
(***************************************************************************)
\* the arguments of a call of a comparator
EqualArgs(f, x, y, c) ==
    /\ fn = f /\ a = x /\ b = y /\ cfg = c /\ attrs = <<>>

\* the arguments of a call of a containment checker
HasArgs(f, x, as) ==
    /\ fn = f /\ a = x /\ b = x /\ cfg = DefaultConfig /\ attrs = as

InitEqual ==
    \E c \in Configs :
        \/ \E x \in ExemplarsNear(BaseExemplar, "float64") :
             \E y \in ExemplarsNear(x, "float64") :
                EqualArgs("equalExemplars", x, y, c)
        \/ \E x \in DataPointsNear(BaseDataPoint, "float64") :
             \E y \in DataPointsNear(x, "float64") :
                EqualArgs("equalDataPoints", x, y, c)
        \/ \E x \in HistogramDataPointsNear(BaseHistogramDataPoint, "float64") :
             \E y \in HistogramDataPointsNear(x, "float64") :
                EqualArgs("equalHistogramDataPoints", x, y, c)
        \/ \E x \in ExponentialHistogramDataPointsNear(
                        BaseExponentialHistogramDataPoint, "float64") :
             \E y \in ExponentialHistogramDataPointsNear(x, "float64") :
                EqualArgs("equalExponentialHistogramDataPoints", x, y, c)
        \/ \E x \in AggregationBases : \E y \in AggregationsNear(x) :
                EqualArgs("equalAggregations", x, y, c)
        \/ \E x \in MetricsNear(BaseMetrics) : \E y \in MetricsNear(x) :
                EqualArgs("equalMetrics", x, y, c)
        \/ \E x \in ScopeMetricsAll : \E y \in ScopeMetricsAll :
                EqualArgs("equalScopeMetrics", x, y, c)
        \/ \E x \in ResourceMetricsAll : \E y \in ResourceMetricsAll :
                EqualArgs("equalResourceMetrics", x, y, c)

InitHas ==
    \E as \in AttributeLists :
        \/ \E x \in ContainmentExemplars : HasArgs("hasAttributesExemplars", x, as)
        \/ \E x \in PointsWithAttributes(BaseDataPoint) :
                HasArgs("hasAttributesDataPoints", x, as)
        \/ \E x \in PointsWithAttributes(BaseHistogramDataPoint) :
                HasArgs("hasAttributesHistogramDataPoints", x, as)
        \/ \E x \in PointsWithAttributes(BaseExponentialHistogramDataPoint) :
                HasArgs("hasAttributesExponentialHistogramDataPoints", x, as)
        \/ \E x \in ContainmentAggregations :
                HasArgs("hasAttributesAggregation", x, as)
        \/ \E x \in ContainmentMetrics : HasArgs("hasAttributesMetrics", x, as)
        \/ \E x \in ContainmentScopeMetrics :
                HasArgs("hasAttributesScopeMetrics", x, as)
        \/ \E x \in ContainmentResourceMetrics :
                HasArgs("hasAttributesResourceMetrics", x, as)

\* the elements of the slices of a call of diffSlices, and its predicates:
\* any function of two elements, symmetric or not
Elements == {1, 2}

Predicates == [Elements \X Elements -> BOOLEAN]

InitDiff ==
    /\ fn = "diffSlices"
    /\ a \in SeqsUpTo(Elements, MaxLen)
    /\ b \in SeqsUpTo(Elements, MaxLen)
    /\ predicate \in Predicates
    /\ cfg = DefaultConfig /\ attrs = <<>>

Init ==
    /\ pc = "call"
    /\ reasons = <<>>
    /\ extra = [extraA |-> <<>>, extraB |-> <<>>]
    /\ \/ (InitEqual \/ InitHas) /\ predicate = <<>>
       \/ InitDiff

\* the call of f returns r
Return(f, r) ==
    /\ pc = "call"
    /\ fn = f
    /\ reasons' = r
    /\ pc' = "done"
    /\ UNCHANGED <<fn, a, b, cfg, attrs, predicate, extra>>

\* the call of f panics, when p, and returns nothing, or returns r
ReturnOrPanic(f, p, r) ==
    /\ pc = "call"
    /\ fn = f
    /\ IF p
       THEN pc' = "panic" /\ reasons' = <<>>
       ELSE pc' = "done" /\ reasons' = r
    /\ UNCHANGED <<fn, a, b, cfg, attrs, predicate, extra>>

EqualExemplars ==
    ReturnOrPanic("equalExemplars", panicsExemplars(a, b, cfg),
                  equalExemplars(a, b, cfg))

EqualDataPoints ==
    ReturnOrPanic("equalDataPoints", panicsPoints(a, b, cfg),
                  equalDataPoints(a, b, cfg))

EqualHistogramDataPoints ==
    ReturnOrPanic("equalHistogramDataPoints", panicsPoints(a, b, cfg),
                  equalHistogramDataPoints(a, b, cfg))

EqualExponentialHistogramDataPoints ==
    ReturnOrPanic("equalExponentialHistogramDataPoints", panicsPoints(a, b, cfg),
                  equalExponentialHistogramDataPoints(a, b, cfg))

EqualAggregations ==
    ReturnOrPanic("equalAggregations", panicsAggregations(a, b, cfg),
                  equalAggregations(a, b, cfg))

EqualMetrics ==
    ReturnOrPanic("equalMetrics", panicsMetrics(a, b, cfg),
                  equalMetrics(a, b, cfg))

EqualScopeMetrics ==
    ReturnOrPanic("equalScopeMetrics", panicsScopeMetrics(a, b, cfg),
                  equalScopeMetrics(a, b, cfg))

EqualResourceMetrics ==
    ReturnOrPanic("equalResourceMetrics", panicsResourceMetrics(a, b, cfg),
                  equalResourceMetrics(a, b, cfg))

HasAttributesExemplars ==
    Return("hasAttributesExemplars", hasAttributesExemplars(a, attrs))

HasAttributesDataPoints ==
    Return("hasAttributesDataPoints", hasAttributesDataPoints(a, attrs))

HasAttributesHistogramDataPoints ==
    Return("hasAttributesHistogramDataPoints",
           hasAttributesHistogramDataPoints(a, attrs))

HasAttributesExponentialHistogramDataPoints ==
    Return("hasAttributesExponentialHistogramDataPoints",
           hasAttributesExponentialHistogramDataPoints(a, attrs))

HasAttributesAggregation ==
    Return("hasAttributesAggregation", hasAttributesAggregation(a, attrs))

HasAttributesMetrics == Return("hasAttributesMetrics", hasAttributesMetrics(a, attrs))

HasAttributesScopeMetrics ==
    Return("hasAttributesScopeMetrics", hasAttributesScopeMetrics(a, attrs))

HasAttributesResourceMetrics ==
    Return("hasAttributesResourceMetrics", hasAttributesResourceMetrics(a, attrs))

\* diffSlices(a, b, equal), equal the predicate of the call
DiffSlices ==
    /\ pc = "call"
    /\ fn = "diffSlices"
    /\ extra' = diffSlices(a, b,
                    [i \in 1..Len(a) |-> [j \in 1..Len(b) |-> predicate[<<a[i], b[j]>>]]])
    /\ pc' = "done"
    /\ UNCHANGED <<fn, a, b, cfg, attrs, predicate, reasons>>

Next ==
    \/ DiffSlices
    \/ EqualExemplars
    \/ EqualDataPoints
    \/ EqualHistogramDataPoints
    \/ EqualExponentialHistogramDataPoints
    \/ EqualAggregations
    \/ EqualMetrics
    \/ EqualScopeMetrics
    \/ EqualResourceMetrics
    \/ HasAttributesExemplars
    \/ HasAttributesDataPoints
    \/ HasAttributesHistogramDataPoints
    \/ HasAttributesExponentialHistogramDataPoints
    \/ HasAttributesAggregation
    \/ HasAttributesMetrics
    \/ HasAttributesScopeMetrics
    \/ HasAttributesResourceMetrics

Spec == Init /\ [][Next]_vars

(***************************************************************************)
(* Vocabulary of the properties.                                           *)
(***************************************************************************)
EqualFns ==
    {"equalExemplars", "equalDataPoints", "equalHistogramDataPoints",
     "equalExponentialHistogramDataPoints", "equalAggregations", "equalMetrics",
     "equalScopeMetrics", "equalResourceMetrics"}

PointFns ==
    {"equalDataPoints", "equalHistogramDataPoints",
     "equalExponentialHistogramDataPoints"}

\* the comparator f applied to other arguments than those of the call
compare(f, x, y, c) ==
    CASE f = "equalExemplars" -> equalExemplars(x, y, c)
      [] f = "equalDataPoints" -> equalDataPoints(x, y, c)
      [] f = "equalHistogramDataPoints" -> equalHistogramDataPoints(x, y, c)
      [] f = "equalExponentialHistogramDataPoints" ->
             equalExponentialHistogramDataPoints(x, y, c)
      [] f = "equalAggregations" -> equalAggregations(x, y, c)
      [] f = "equalMetrics" -> equalMetrics(x, y, c)
      [] f = "equalScopeMetrics" -> equalScopeMetrics(x, y, c)
      [] f = "equalResourceMetrics" -> equalResourceMetrics(x, y, c)

\* the call of the comparator f has returned
Returned(f) == pc = "done" /\ fn = f

ReturnedEqual == pc = "done" /\ fn \in EqualFns

\* the comparators that match a child collection of their arguments with
\* diffSlices whatever the config, and the field that holds the collection
TreeFns == {"equalAggregations", "equalScopeMetrics", "equalResourceMetrics"}

ChildField(f) ==
    CASE f = "equalAggregations" -> "DataPoints"
      [] f = "equalScopeMetrics" -> "Metrics"
      [] f = "equalResourceMetrics" -> "ScopeMetrics"
      [] f \in PointFns -> "Exemplars"

\* x and y hold a child collection that the comparator f matches under c
HasChildren(f, x, y, c) ==
    \/ f \in {"equalScopeMetrics", "equalResourceMetrics"}
    \/ f = "equalAggregations" /\ ~NoPoints(x) /\ ~NoPoints(y) /\ TypeOf(x) = TypeOf(y)
    \/ f \in PointFns /\ ~c.ignoreExemplars

\* the predicate the comparator f hands to diffSlices for the collections s, t
ChildEqual(f, x, s, t, c) ==
    CASE f = "equalResourceMetrics" -> scopeMetricsEqual(s, t, c)
      [] f = "equalScopeMetrics" -> metricsEqual(s, t, c)
      [] f = "equalAggregations" /\ x.type \in {"Gauge", "Sum"} ->
             dataPointsEqual(s, t, c)
      [] f = "equalAggregations" /\ x.type = "Histogram" ->
             histogramDataPointsEqual(s, t, c)
      [] f = "equalAggregations" /\ x.type = "ExponentialHistogram" ->
             exponentialHistogramDataPointsEqual(s, t, c)
      [] f \in PointFns -> exemplarsEqual(s, t, c)

\* what diffSlices returns inside the call f(x, y, c)
ChildDiff(f, x, y, c) ==
    diffSlices(x[ChildField(f)], y[ChildField(f)],
               ChildEqual(f, x, x[ChildField(f)], y[ChildField(f)], c))

\* the sequences that hold the elements of s in another order
PermutationsOf(s) ==
    {[i \in 1..Len(s) |-> s[p[i]]] : p \in Permutations(1..Len(s))}

\* the argument x of the comparator f is an aggregation without data points
Childless(f, x) == f = "equalAggregations" /\ NoPoints(x)

\* y is x but for the value of field
SameBut(x, y, field) == [y EXCEPT ![field] = x[field]] = x

(***************************************************************************)
(* C1.  Reflexivity: a call of a comparator with twice the same value      *)
(* returns no reason, whatever the config.                                 *)
(***************************************************************************)
\* well-formed: an aggregation is one of the 8 shapes, or absent
WellFormed(f, x) ==
    CASE f = "equalAggregations" -> x.type # "unknown"
      [] f = "equalMetrics" -> x.Data.type # "unknown"
      [] OTHER -> TRUE

\* C1: a well-formed value compared with itself gives no reason, under every
\* config
C1_Reflexive == ReturnedEqual /\ WellFormed(fn, a) /\ a = b => Len(reasons) = 0

(***************************************************************************)
(* C2.  Order independence of children: with the children of the second    *)
(* argument (ScopeMetrics of a ResourceMetrics, Metrics of a               *)
(* ScopeMetrics, DataPoints of an aggregation) put in any other order,     *)
(* the comparator returns no reason exactly when the call returned none.   *)
(***************************************************************************)
C2_OrderIndependent ==
    pc = "done" /\ fn \in TreeFns /\ ~Childless(fn, b) =>
        \A l \in PermutationsOf(b[ChildField(fn)]) :
            (Len(compare(fn, a, [b EXCEPT ![ChildField(fn)] = l], cfg)) = 0)
                <=> (Len(reasons) = 0)

\* two children that differ in the config of the call were given in the two
\* orders, and the call found the arguments equal
C2_Witness ==
    /\ pc = "done" /\ fn \in TreeFns /\ ~Childless(fn, a) /\ ~Childless(fn, b)
    /\ cfg = DefaultConfig
    /\ Len(a[ChildField(fn)]) = 2
    /\ a[ChildField(fn)][1] # a[ChildField(fn)][2]
    /\ b[ChildField(fn)] = <<a[ChildField(fn)][2], a[ChildField(fn)][1]>>
    /\ Len(reasons) = 0

(***************************************************************************)
(* C3.  Duplicate multiplicity: when one argument holds the collection     *)
(* <<X, X>> and the other <<X>>, diffSlices leaves exactly one X unmatched *)
(* and the comparator returns a reason.                                    *)
(***************************************************************************)
C3_DuplicateMultiplicity ==
    pc = "done" /\ fn \in TreeFns \cup PointFns /\ HasChildren(fn, a, b, cfg) =>
        \A X \in {a[ChildField(fn)][i] : i \in 1..Len(a[ChildField(fn)])} :
            \/ /\ a[ChildField(fn)] = <<X, X>>
               /\ b[ChildField(fn)] = <<X>>
            \/ /\ a[ChildField(fn)] = <<X>>
               /\ b[ChildField(fn)] = <<X, X>>
            => /\ Len(ChildDiff(fn, a, b, cfg).extraA)
                    + Len(ChildDiff(fn, a, b, cfg).extraB) = 1
               /\ Len(reasons) # 0

(***************************************************************************)
(* C4.  Symmetry of detection: when a call of a comparator returns a       *)
(* reason, so does the comparator with the two arguments exchanged.        *)
(***************************************************************************)
C4_SymmetricDetection ==
    ReturnedEqual /\ Len(reasons) # 0 => Len(compare(fn, b, a, cfg)) # 0

\* a call that found one argument to hold one child more than the other
C4_Witness ==
    /\ ReturnedEqual /\ fn \in TreeFns /\ HasChildren(fn, a, b, cfg)
    /\ Len(a[ChildField(fn)]) > Len(b[ChildField(fn)])
    /\ Len(ChildDiff(fn, a, b, cfg).extraB) = 0
    /\ Len(reasons) # 0

(***************************************************************************)
(* C5.  Identity fields and the policy.                                    *)
(***************************************************************************)
\* the arguments of the call differ in field and in nothing else
OnlyDiff(field) == a[field] # b[field] /\ SameBut(a, b, field)

\* the arguments differ in the Offset of the bucket and in nothing else
OnlyOffset(bucket) ==
    /\ SameBut(a, b, bucket)
    /\ a[bucket].Offset # b[bucket].Offset
    /\ a[bucket].Counts = b[bucket].Counts

\* a difference in a metric name, description or unit, in a temporality or
\* monotonicity, or in the attributes of a data point
IdentityDifference ==
    \/ fn = "equalMetrics" /\ \E f \in {"Name", "Description", "Unit"} : OnlyDiff(f)
    \/ /\ fn = "equalAggregations" /\ ~NoPoints(a) /\ ~NoPoints(b)
       /\ TypeOf(a) = TypeOf(b)
       /\ \E f \in {"Temporality", "IsMonotonic"} \cap DOMAIN a : OnlyDiff(f)
    \/ fn \in PointFns /\ OnlyDiff("Attributes")

\* a difference in histogram bounds, in an exponential histogram scale or in
\* an exponential bucket offset
BucketLayoutDifference ==
    \/ fn = "equalHistogramDataPoints" /\ OnlyDiff("Bounds")
    \/ /\ fn = "equalExponentialHistogramDataPoints"
       /\ \/ OnlyDiff("Scale")
          \/ OnlyOffset("PositiveBucket")
          \/ OnlyOffset("NegativeBucket")

\* C5 as claimed: entities that differ in one identity field (name,
\* description, unit, temporality, monotonicity, scale, bucket offset,
\* bounds) and in nothing else compare unequal under every policy.
C5_NeverIgnorable ==
    ReturnedEqual /\ (IdentityDifference \/ BucketLayoutDifference)
        => Len(reasons) # 0

\* C5 as amended: a difference in name, description, unit, temporality,
\* monotonicity or attributes is reported under every policy; a difference
\* in bounds, scale or bucket offset is reported when ignoreValue is false,
\* and with ignoreValue true it is not: the comparison returns as many
\* reasons as the first argument compared with itself, none of them about
\* these fields.
C5_IgnoreValueCoversBucketLayout ==
    ReturnedEqual =>
        /\ IdentityDifference => Len(reasons) # 0
        /\ BucketLayoutDifference /\ ~cfg.ignoreValue => Len(reasons) # 0
        /\ BucketLayoutDifference /\ cfg.ignoreValue =>
              /\ Len(reasons) = Len(compare(fn, a, a, cfg))
              /\ \A i \in 1..Len(reasons) :
                    reasons[i].fmt = NotEqualFmt =>
                        reasons[i].args[1] \notin {"Bounds", "Scale", "Offset"}

\* histogram data points that differ in their bounds were found equal
C5_Witness ==
    /\ Returned("equalHistogramDataPoints")
    /\ OnlyDiff("Bounds")
    /\ cfg.ignoreValue
    /\ Len(reasons) = 0

(***************************************************************************)
(* C6.  The scenario of a value mismatch through the whole tree.           *)
(***************************************************************************)
\* A and B of the scenario: one ScopeMetrics, one Metrics "requests", a
\* monotonic cumulative Sum[int64], one data point, of value 5 in A, 6 in B
Scenario ==
    /\ fn = "equalResourceMetrics"
    /\ a.Resource = b.Resource
    /\ a.ScopeMetrics = <<BaseScopeMetrics>>
    /\ b.ScopeMetrics = <<OtherScopeMetrics>>

\* the reason "Value not equal" with expected 5 and actual 6
ValueReason == notEqualStr("Value", Num(5), Num(6))

IsValueReason(r) ==
    r.fmt = NotEqualFmt /\ r.args[1] = "Value" /\ r.args = ValueReason.args

\* r is the reason "Value not equal", or holds it in the text it embeds
RefersToValueReason(r) ==
    \/ IsValueReason(r)
    \/ /\ r.fmt = "ResourceMetrics ScopeMetrics not equal:\n%s"
       /\ \E i \in 1..Len(r.args[1]) : IsValueReason(r.args[1][i])

\* C6 as claimed: under the default policy one reason, which refers to
\* "Value not equal", expected 5, actual 6; none under ignoreValue.
C6_ValueMismatchReason ==
    pc = "done" /\ Scenario =>
        /\ cfg = DefaultConfig =>
              Len(reasons) = 1 /\ RefersToValueReason(reasons[1])
        /\ cfg.ignoreValue => Len(reasons) = 0

\* C6 as amended: when values are compared, equalResourceMetrics returns
\* one reason, "ResourceMetrics ScopeMetrics not equal", whose text lists
\* the ScopeMetrics of A as missing and the ScopeMetrics of B as additional;
\* none under ignoreValue.  The reason "Value not equal", expected 5,
\* actual 6, is what equalDataPoints returns for the two data points.
C6_ScopeMetricsReason ==
    /\ pc = "done" /\ Scenario =>
          /\ ~cfg.ignoreValue =>
                /\ Len(reasons) = 1
                /\ reasons[1].fmt = "ResourceMetrics ScopeMetrics not equal:\n%s"
                /\ reasons[1].args[1] =
                       <<Sprintf("missing expected values:\n", <<>>),
                         Sprintf("%#v\n", <<BaseScopeMetrics>>),
                         Sprintf("unexpected additional values:\n", <<>>),
                         Sprintf("%#v\n", <<OtherScopeMetrics>>)>>
                /\ ~RefersToValueReason(reasons[1])
          /\ cfg.ignoreValue => Len(reasons) = 0
    /\ /\ Returned("equalDataPoints")
       /\ a = BaseDataPoint
       /\ b = [BaseDataPoint EXCEPT !.Value = Num(6)]
       => IF cfg.ignoreValue THEN Len(reasons) = 0 ELSE reasons = <<ValueReason>>

\* the comparison of A with B has returned under the default policy
C6_Witness == pc = "done" /\ Scenario /\ cfg = DefaultConfig /\ Len(reasons) = 1

(***************************************************************************)
(* C7.  Attribute containment of a one-key subset in a tree with one data  *)
(* point.                                                                  *)
(***************************************************************************)
\* the containment entry points for data points and what encloses them
HasFns ==
    {"hasAttributesDataPoints", "hasAttributesHistogramDataPoints",
     "hasAttributesExponentialHistogramDataPoints", "hasAttributesAggregation",
     "hasAttributesMetrics", "hasAttributesScopeMetrics",
     "hasAttributesResourceMetrics"}

SolePointOfAggregation(x) == ~NoPoints(x) /\ Len(x.DataPoints) = 1

\* the tree x given to the entry point f holds exactly one data point
HasSolePoint(f, x) ==
    CASE f = "hasAttributesAggregation" -> SolePointOfAggregation(x)
      [] f = "hasAttributesMetrics" -> SolePointOfAggregation(x.Data)
      [] f = "hasAttributesScopeMetrics" ->
             Len(x.Metrics) = 1 /\ SolePointOfAggregation(x.Metrics[1].Data)
      [] f = "hasAttributesResourceMetrics" ->
             /\ Len(x.ScopeMetrics) = 1
             /\ Len(x.ScopeMetrics[1].Metrics) = 1
             /\ SolePointOfAggregation(x.ScopeMetrics[1].Metrics[1].Data)
      [] OTHER -> TRUE

\* the aggregation of the tree x given to f, and its one data point
AggregationOf(f, x) ==
    CASE f = "hasAttributesAggregation" -> x
      [] f = "hasAttributesMetrics" -> x.Data
      [] f = "hasAttributesScopeMetrics" -> x.Metrics[1].Data
      [] f = "hasAttributesResourceMetrics" -> x.ScopeMetrics[1].Metrics[1].Data

SolePoint(f, x) ==
    IF f \in {"hasAttributesDataPoints", "hasAttributesHistogramDataPoints",
              "hasAttributesExponentialHistogramDataPoints"}
    THEN x
    ELSE AggregationOf(f, x).DataPoints[1]

\* the reason for the attribute kv and the data point d
ContainmentReason(kv, d) ==
    IF SetHas(d.Attributes, kv.Key)
    THEN notEqualStr(kv.Key, Emit(kv.Value), Emit(SetValue(d.Attributes, kv.Key)))
    ELSE missingAttrStr(kv.Key)

\* the call checks one attribute that the one data point of the tree lacks
\* or carries with another value
ContainmentCase ==
    /\ pc = "done" /\ fn \in HasFns
    /\ HasSolePoint(fn, a)
    /\ Len(attrs) = 1
    /\ attrs[1] \notin SolePoint(fn, a).Attributes

\* C7 as claimed: exactly one reason, whichever the entry point.
C7_OneReason ==
    ContainmentCase =>
        /\ Len(reasons) = 1
        /\ reasons[1] = ContainmentReason(attrs[1], SolePoint(fn, a))

\* the format strings of the context headers of the entry point f
DataPointHeader(agg) ==
    CASE agg.type = "Gauge" -> "gauge datapoint %d attributes:\n"
      [] agg.type = "Sum" -> "sum datapoint %d attributes:\n"
      [] OTHER -> "histogram datapoint %d attributes:\n"

HeaderFmts(f, x) ==
    CASE f = "hasAttributesAggregation" -> <<DataPointHeader(x)>>
      [] f = "hasAttributesMetrics" -> <<"Metric %s:\n", DataPointHeader(x.Data)>>
      [] f = "hasAttributesScopeMetrics" ->
             <<"ScopeMetrics %s Metrics %d:\n", "Metric %s:\n",
               DataPointHeader(AggregationOf(f, x))>>
      [] f = "hasAttributesResourceMetrics" ->
             <<"ResourceMetrics ScopeMetrics %d:\n", "ScopeMetrics %s Metrics %d:\n",
               "Metric %s:\n", DataPointHeader(AggregationOf(f, x))>>
      [] OTHER -> <<>>

\* C7 as amended: the reason of the mismatch ("<key> not equal", or "missing
\* attribute <key>") is the last reason returned; it is the only one at a
\* data point entry point, and every enclosing level puts one context
\* header in front of it: 2 reasons for an aggregation, 3 for Metrics, 4
\* for ScopeMetrics, 5 for ResourceMetrics.
C7_ReasonAfterHeaders ==
    ContainmentCase =>
        LET hs == HeaderFmts(fn, a)
        IN /\ Len(reasons) = Len(hs) + 1
           /\ \A i \in 1..Len(hs) : reasons[i].fmt = hs[i]
           /\ reasons[Len(reasons)] = ContainmentReason(attrs[1], SolePoint(fn, a))

\* a ResourceMetrics whose data point has method POST was checked for GET
C7_Witness ==
    /\ ContainmentCase
    /\ fn = "hasAttributesResourceMetrics"
    /\ attrs = <<MethodGET>>
    /\ SolePoint(fn, a).Attributes = {MethodPOST}
    /\ Len(reasons) = 5

(***************************************************************************)
(* C8.  Sequence semantics of Bounds, BucketCounts and bucket Counts.      *)
(***************************************************************************)
\* how many elements of s are v
Occurrences(s, v) == Cardinality({i \in 1..Len(s) : s[i] = v})

\* t holds the elements of s in an order that changes a position
Reordered(s, t) ==
    /\ Len(s) = Len(t)
    /\ \A i \in 1..Len(s) : Occurrences(s, s[i]) = Occurrences(t, s[i])
    /\ s # t

\* the arguments differ in the Counts of the bucket, which are reordered,
\* and in nothing else
OnlyCountsReordered(bucket) ==
    /\ SameBut(a, b, bucket)
    /\ a[bucket].Offset = b[bucket].Offset
    /\ Reordered(a[bucket].Counts, b[bucket].Counts)

\* the arguments differ in one ordered field, which is reordered
OnlyReordered ==
    \/ /\ fn = "equalHistogramDataPoints"
       /\ \E f \in {"Bounds", "BucketCounts"} :
             SameBut(a, b, f) /\ Reordered(a[f], b[f])
    \/ /\ fn = "equalExponentialHistogramDataPoints"
       /\ \E k \in {"PositiveBucket", "NegativeBucket"} : OnlyCountsReordered(k)

\* the name of the ordered field the arguments differ in
ReorderedField ==
    IF fn = "equalExponentialHistogramDataPoints" THEN "Counts"
    ELSE IF a.Bounds # b.Bounds THEN "Bounds" ELSE "BucketCounts"

\* C8: data points that differ only in the order of the elements of Bounds,
\* BucketCounts or a bucket's Counts compare unequal wherever the numeric
\* payload is compared (ignoreValue false): the one reason names that field.
C8_SequenceSemantics ==
    pc = "done" /\ OnlyReordered /\ ~cfg.ignoreValue =>
        /\ Len(reasons) # 0
        /\ \E i \in 1..Len(reasons) :
              reasons[i].fmt = NotEqualFmt /\ reasons[i].args[1] = ReorderedField

\* bucket counts of an exponential histogram data point in another order
C8_Witness ==
    /\ Returned("equalExponentialHistogramDataPoints")
    /\ OnlyCountsReordered("PositiveBucket")
    /\ ~cfg.ignoreValue
    /\ Len(reasons) # 0

(***************************************************************************)
(* C9.  The ignoreTimestamp switch: data points that differ only in        *)
(* StartTime or Time compare equal when ignoreTimestamp is true, unequal   *)
(* when it is false, whatever the other two switches.                      *)
(***************************************************************************)
TimestampsOnly ==
    /\ fn \in PointFns
    /\ [b EXCEPT !.StartTime = a.StartTime, !.Time = a.Time] = a
    /\ (a.StartTime # b.StartTime \/ a.Time # b.Time)

\* C9: data points that differ in their timestamps only compare equal exactly
\* when ignoreTimestamp is set
C9_IgnoreTimestamp ==
    pc = "done" /\ TimestampsOnly =>
        IF cfg.ignoreTimestamp THEN Len(reasons) = 0 ELSE Len(reasons) # 0

(***************************************************************************)
(* C10.  Variant discrimination: for two present aggregations of           *)
(* different concrete types equalAggregations returns one reason, the      *)
(* mismatch of the types, under every policy and whatever the data points. *)
(***************************************************************************)
TypesFmt == "Aggregation types not equal:\nexpected: %T\nactual: %T"

DifferentVariants ==
    /\ fn = "equalAggregations"
    /\ a.type # "nil" /\ b.type # "nil"
    /\ (a.type # b.type \/ (~NoPoints(a) /\ ~NoPoints(b) /\ a.N # b.N))

\* C10: aggregations of different concrete types get the one reason
\* "Aggregation types not equal" with the two types
C10_VariantDiscrimination ==
    pc # "call" /\ DifferentVariants =>
        /\ pc = "done"
        /\ Len(reasons) = 1
        /\ reasons[1].fmt = TypesFmt
        /\ reasons[1].args = <<a, b>>

\* a Sum[int64] and a Sum[float64] with the same data points were compared
C10_Witness ==
    /\ pc = "done" /\ DifferentVariants
    /\ a.type = "Sum" /\ b.type = "Sum"
    /\ a.DataPoints = b.DataPoints /\ Len(a.DataPoints) > 0
    /\ Len(reasons) = 1

(***************************************************************************)
(* C11.  Absence of an extremum: in the comparison of two histogram or     *)
(* exponential histogram data points an absent Min (Max) equals an absent  *)
(* one, differs from a present one of any value, zero included, and two    *)
(* present ones are equal exactly when their values are.                   *)
(***************************************************************************)
HistogramFns == {"equalHistogramDataPoints", "equalExponentialHistogramDataPoints"}

\* the reason of the call for the extremum field of its arguments
ExtremaReason(field) == notEqualStr(field, a[field], b[field])

ReportsExtrema(field) ==
    \E i \in 1..Len(reasons) : reasons[i] = ExtremaReason(field)

\* the extrema x and y differ: one of them only is present, or both are and
\* their values are not equal (a NaN equals no value)
ExtremaDiffer(x, y) ==
    IF ~x.valid /\ ~y.valid THEN FALSE
    ELSE IF ~x.valid \/ ~y.valid THEN TRUE
    ELSE x.value.nan \/ y.value.nan \/ x.value.v # y.value.v

\* C11: when values are compared, the call reports "Min not equal" ("Max not
\* equal") exactly when the two extrema differ, and then only: points that
\* differ in nothing else get this one reason, or none.
C11_ExtremaAbsence ==
    pc = "done" /\ fn \in HistogramFns /\ ~cfg.ignoreValue =>
        \A field \in {"Min", "Max"} :
            /\ ReportsExtrema(field) <=> ExtremaDiffer(a[field], b[field])
            /\ SameBut(a, b, field) /\ ~ExtremaDiffer(a[field], b[field])
                   => (Len(reasons) = 0 <=> Len(compare(fn, a, a, cfg)) = 0)
            /\ SameBut(a, b, field) /\ ExtremaDiffer(a[field], b[field])
                   => Len(reasons) # 0

\* an absent Min was compared with a present Min of value zero and reported
C11_Witness ==
    /\ pc = "done" /\ fn \in HistogramFns /\ ~cfg.ignoreValue
    /\ ~a.Min.valid
    /\ b.Min = [valid |-> TRUE, value |-> Num(0)]
    /\ SameBut(a, b, "Min")
    /\ reasons = <<ExtremaReason("Min")>>

(***************************************************************************)
(* C12.  No abort on the shape of an aggregation: a call of a comparator   *)
(* returns a reason list unless it reaches the panic of equalKeyValue.     *)
(***************************************************************************)
\* the types of the attribute values held by the exemplars of the tree x
ExemplarKinds(e) ==
    {e.FilteredAttributes[i].Value.Type : i \in 1..Len(e.FilteredAttributes)}

PointKinds(d) == UNION {ExemplarKinds(d.Exemplars[i]) : i \in 1..Len(d.Exemplars)}

AggregationKinds(g) ==
    IF NoPoints(g) THEN {}
    ELSE UNION {PointKinds(g.DataPoints[i]) : i \in 1..Len(g.DataPoints)}

ScopeMetricsKinds(sm) ==
    UNION {AggregationKinds(sm.Metrics[i].Data) : i \in 1..Len(sm.Metrics)}

AttributeKinds(f, x) ==
    CASE f = "equalExemplars" -> ExemplarKinds(x)
      [] f \in PointFns -> PointKinds(x)
      [] f = "equalAggregations" -> AggregationKinds(x)
      [] f = "equalMetrics" -> AggregationKinds(x.Data)
      [] f = "equalScopeMetrics" -> ScopeMetricsKinds(x)
      [] f = "equalResourceMetrics" ->
             UNION {ScopeMetricsKinds(x.ScopeMetrics[i]) : i \in 1..Len(x.ScopeMetrics)}
      [] OTHER -> {}

\* the tree x holds an attribute value of a kind outside the 8 known ones
HasUnknownKind(f, x) == ~(AttributeKinds(f, x) \subseteq ValueTypes)

UnknownTypesReason(x) == Sprintf("Aggregation of unknown types %T", <<x>>)

\* the reasons of equalMetrics for the fields Name, Description and Unit
SiblingReasons(x, y) ==
    (IF x.Name # y.Name THEN <<notEqualStr("Name", x.Name, y.Name)>> ELSE <<>>)
    \o (IF x.Description # y.Description
        THEN <<notEqualStr("Description", x.Description, y.Description)>> ELSE <<>>)
    \o (IF x.Unit # y.Unit THEN <<notEqualStr("Unit", x.Unit, y.Unit)>> ELSE <<>>)

\* C12: a call ends with a panic only when both arguments hold an attribute
\* value of unknown kind, so never because of the shape of an aggregation:
\* with an absent or unrecognized aggregation it returns.  equalAggregations returns no reason for two absent
\* aggregations, the one reason "Aggregation not equal" when one only is
\* absent, one reason when one only is of an unrecognized shape, and the
\* one reason "Aggregation of unknown types" when it dispatches on an
\* unrecognized shape; equalMetrics then returns the reasons of Name,
\* Description and Unit, the header and this reason.
C12_NeverAborts ==
    /\ pc = "panic" =>
          fn \in EqualFns /\ HasUnknownKind(fn, a) /\ HasUnknownKind(fn, b)
    /\ fn = "equalAggregations" /\ (NoPoints(a) \/ NoPoints(b)) /\ pc # "call" =>
          /\ pc = "done"
          /\ a.type = "nil" /\ b.type = "nil" => reasons = <<>>
          /\ (a.type = "nil") # (b.type = "nil") =>
                reasons = <<notEqualStr("Aggregation", a, b)>>
          /\ a.type = "unknown" /\ b.type = "unknown" =>
                reasons = <<UnknownTypesReason(a)>>
          /\ (a.type = "unknown") # (b.type = "unknown") => Len(reasons) = 1
    /\ /\ fn = "equalMetrics" /\ pc # "call"
       /\ a.Data.type = "unknown" /\ b.Data.type = "unknown"
       => /\ pc = "done"
          /\ reasons = SiblingReasons(a, b)
                 \o <<Sprintf("Metrics Data not equal:", <<>>), UnknownTypesReason(a.Data)>>

\* Metrics of unrecognized shape and of different names were compared: the
\* names are reported, then the shape
C12_Witness ==
    /\ Returned("equalMetrics")
    /\ a.Data.type = "unknown" /\ b.Data.type = "unknown"
    /\ a.Name # b.Name
    /\ Len(reasons) = 3

\* a call of a tree comparator has ended with the panic of equalKeyValue
C12_PanicWitness == pc = "panic" /\ fn = "equalResourceMetrics"

(***************************************************************************)
(* C13.  Greedy matching of diffSlices: the elements of A, in index order, *)
(* each consume the lowest-index element of B that is not consumed and     *)
(* satisfies the predicate; extraA is the unmatched elements of A in A's   *)
(* order, extraB the elements of B never consumed in B's order, and as     *)
(* many elements are matched on both sides.                                *)
(***************************************************************************)
\* m is the greedy matching of A with B: m[i] is the index of the element of
\* B that element i of A consumes, 0 when it consumes none
IsGreedy(m) ==
    \A i \in 1..Len(a) :
        LET free == {j \in 1..Len(b) :
                        /\ predicate[<<a[i], b[j]>>]
                        /\ \A k \in 1..(i - 1) : m[k] # j}
        IN IF free = {}
           THEN m[i] = 0
           ELSE m[i] \in free /\ \A j \in free : m[i] <= j

\* r is the elements of s at the indices of keep, in the order of s
IsSubsequence(r, s, keep) ==
    /\ Len(r) = Cardinality(keep)
    /\ \A i \in keep : r[Cardinality({k \in keep : k <= i})] = s[i]

\* C13: what diffSlices returns is what the greedy matching leaves
C13_GreedyMatching ==
    pc = "done" /\ fn = "diffSlices" =>
        /\ \E m \in [1..Len(a) -> 0..Len(b)] :
              /\ IsGreedy(m)
              /\ IsSubsequence(extra.extraA, a, {i \in 1..Len(a) : m[i] = 0})
              /\ IsSubsequence(extra.extraB, b,
                     {j \in 1..Len(b) : \A i \in 1..Len(a) : m[i] # j})
        /\ Len(a) - Len(extra.extraA) = Len(b) - Len(extra.extraB)

\* the first element of A has consumed the only element of B that the second
\* could have: the second is left unmatched, with the second element of B
C13_Witness ==
    /\ pc = "done" /\ fn = "diffSlices"
    /\ a = <<1, 2>> /\ b = <<1, 2>>
    /\ predicate[<<1, 1>>] /\ predicate[<<1, 2>>]
    /\ predicate[<<2, 1>>] /\ ~predicate[<<2, 2>>]
    /\ extra = [extraA |-> <<2>>, extraB |-> <<2>>]

====
